---------------------------- MODULE Spec2Model ----------------------------
(***************************************************************************)
(* postgres-model-generator (src/main.go, the revision with GetAllTables,  *)
(* lines 86-263).                                                          *)
(*                                                                         *)
(* Three specifications share this module:                                 *)
(*   Spec           one run of main: MustNewDB, GetAllTables (query, row   *)
(*                  scan, deferred Close), the model literal, Execute.     *)
(*   SpecNormalize  toCamelCase applied to every identifier over a small   *)
(*                  alphabet, then applied again to its own result.        *)
(*   SpecRender     modelTpl executed on every Model of a bounded shape.   *)
(*                                                                         *)
(* A Go string is a sequence of one-character strings.  Rendered text is a *)
(* sequence of tokens (each a Go string); the token NL is a line break,    *)
(* blanks and tabs only separate tokens.                                   *)
(***************************************************************************)
EXTENDS Integers, Sequences, FiniteSets, TLC

VARIABLES
    \* ---- one run of main ----
    pc,           \* main's position
    rows,         \* the *sql.Rows of GetAllTables: "nil", "open", "closed"
    deferred,     \* TRUE once `defer rows.Close()` is registered
    delivered,    \* history: the rows rows.Next() has yielded so far
    tables,       \* the DBTables map under construction
    diag,         \* number of log.Print diagnostics written by the scan
    queries,      \* history: number of db.Query calls
    queryFailed,  \* history: db.Query returned an error
    model,        \* main's `model`
    stdout,       \* what tmpl.Execute has written to os.Stdout
    exitCode,     \* -1 while running, then the process's exit status
    \* ---- toCamelCase ----
    nIn, nOut, nOut2, nPc,
    \* ---- modelTpl ----
    rModel, rText, rPc

mainVars   == <<pc, rows, deferred, delivered, tables, diag, queries,
                queryFailed, model, stdout, exitCode>>
normVars   == <<nIn, nOut, nOut2, nPc>>
renderVars == <<rModel, rText, rPc>>
vars       == <<mainVars, normVars, renderVars>>

----------------------------------------------------------------------------
(* Bounds *)

MaxIdentLen == 4     \* longest identifier given to toCamelCase
MaxRows     == 3     \* most rows one result set delivers
MaxOrdinal  == 2     \* ordinal positions range over 1..MaxOrdinal
MaxFields   == 3     \* most fields of a rendered Model

Alphabet   == {"a", "d", "I", "_"}
TableNames == {"users", "posts"}

----------------------------------------------------------------------------
(* Strings *)

Lower == <<"a","b","c","d","e","f","g","h","i","j","k","l","m",
           "n","o","p","q","r","s","t","u","v","w","x","y","z">>
Upper == <<"A","B","C","D","E","F","G","H","I","J","K","L","M",
           "N","O","P","Q","R","S","T","U","V","W","X","Y","Z">>

\* unicode.ToUpper on the characters used here: a lower-case letter maps to
\* its upper-case letter, every other character ('_', digits, upper-case
\* letters) maps to itself.
ToUpper(c) ==
    IF \E i \in DOMAIN Lower : Lower[i] = c
    THEN Upper[CHOOSE i \in DOMAIN Lower : Lower[i] = c]
    ELSE c

\* The loop of toCamelCase from position i on, with the flag toUpper and the
\* result built so far.  Go's index i is 0-based, here it is 1-based.
RECURSIVE camelLoop(_, _, _, _)
camelLoop(in, i, toUpper, out) ==
    IF i > Len(in) THEN out
    ELSE IF i = 1 \/ toUpper
         THEN camelLoop(in, i + 1, FALSE, Append(out, ToUpper(in[i])))
    ELSE IF in[i] = "_"
         THEN camelLoop(in, i + 1, TRUE, out)
    ELSE camelLoop(in, i + 1, toUpper, Append(out, in[i]))

\* toCamelCase with line 260 written `out += string(unicode.ToUpper(char))`:
\* characters that follow neither the start nor an underscore are upper-cased
\* too.
RECURSIVE camelLoopUpperAll(_, _, _, _)
camelLoopUpperAll(in, i, toUpper, out) ==
    IF i > Len(in) THEN out
    ELSE IF i = 1 \/ toUpper
         THEN camelLoopUpperAll(in, i + 1, FALSE, Append(out, ToUpper(in[i])))
    ELSE IF in[i] = "_"
         THEN camelLoopUpperAll(in, i + 1, TRUE, out)
    ELSE camelLoopUpperAll(in, i + 1, toUpper, Append(out, ToUpper(in[i])))

toCamelCase_upperAll(in) == camelLoopUpperAll(in, 1, FALSE, <<>>)

toCamelCase(in) == camelLoop(in, 1, FALSE, <<>>)

----------------------------------------------------------------------------
(* SpecNormalize: toCamelCase on every identifier over Alphabet *)

Identifiers == UNION {[1..n -> Alphabet] : n \in 0..MaxIdentLen}

NormInit ==
    /\ nIn \in Identifiers
    /\ nOut = <<>>
    /\ nOut2 = <<>>
    /\ nPc = "start"

NormIdle ==
    /\ nIn = <<>>
    /\ nOut = <<>>
    /\ nOut2 = <<>>
    /\ nPc = "idle"

\* out := toCamelCase(in)
Normalize ==
    /\ nPc = "start"
    /\ nOut' = toCamelCase(nIn)
    /\ nPc' = "done"
    /\ UNCHANGED <<nIn, nOut2, mainVars, renderVars>>

\* toCamelCase applied to its own result
NormalizeAgain ==
    /\ nPc = "done"
    /\ nOut2' = toCamelCase(nOut)
    /\ nPc' = "again"
    /\ UNCHANGED <<nIn, nOut, mainVars, renderVars>>

NormNext == Normalize \/ NormalizeAgain

----------------------------------------------------------------------------
(* The templates and the model literal of main *)

NL       == <<"\n">>
KwType   == <<"t","y","p","e">>
KwStruct == <<"s","t","r","u","c","t">>
LBrace   == <<"{">>
RBrace   == <<"}">>

\* headerTpl (lines 101-111), token by token.  No statement of main uses it.
headerTpl ==
    <<NL, <<"p","a","c","k","a","g","e">>, <<"m","o","d","e","l","s">>, NL,
      NL, <<"i","m","p","o","r","t">>, <<"(">>, NL,
      <<"\"","t","i","m","e","\"">>, NL,
      <<")">>, NL,
      NL, <<"v","a","r">>, <<"(">>, NL,
      <<"_">>, <<"=">>, <<"t","i","m","e",".","T","i","m","e">>, NL,
      <<")">>, NL>>

\* {{range .Fields}}{{.Name}} {{.Type}} {{.Tag}} {{end}}: the fields one after
\* the other, with no line break between them.
RECURSIVE rangeFields(_)
rangeFields(fields) ==
    IF fields = <<>> THEN <<>>
    ELSE <<fields[1].Name, fields[1].Type, fields[1].Tag>>
         \o rangeFields(Tail(fields))

\* tmpl.Execute(os.Stdout, m) for tmpl parsed from modelTpl (lines 113-117).
Execute(m) ==
    <<NL, KwType, m.Name, KwStruct, LBrace, NL>>
    \o rangeFields(m.Fields)
    \o <<NL, RBrace, NL>>

ZeroModel == [Name |-> <<>>, Fields |-> <<>>]

TestTestingModelArg ==
    <<"t","e","s","t","_","t","e","s","t","i","n","g","_","m","o","d","e","l">>
FieldIdArg == <<"f","i","e","l","d","_","i","d">>
Int64      == <<"i","n","t","6","4">>
SqlTag     == <<"s","q","l",":","\"","f","i","e","l","d","_","i","d","\"">>

mainField ==
    [Name |-> toCamelCase(FieldIdArg), Type |-> Int64, Tag |-> SqlTag]

\* A main that builds its model from what GetAllTables returned: one field
\* per column scanned.
mainModel_fromTables ==
    LET n == Len(SelectSeq(delivered, LAMBDA r : ~r.scanErr))
    IN  [Name   |-> toCamelCase(TestTestingModelArg),
         Fields |-> [i \in 1..n |-> mainField]]

\* The literal of lines 227-236.
mainModel ==
    [Name   |-> toCamelCase(TestTestingModelArg),
     Fields |-> <<mainField>>]

----------------------------------------------------------------------------
(* GetAllTables *)

\* One row of the result set as rows.Next() yields it: the table_name and
\* ordinal_position it carries and whether rows.Scan fails on it (a value
\* that does not convert to its destination).  The other columns of the row
\* are copied into the DBColumn and never read; they are left out.  The
\* query joins on table_name alone, so one table may deliver an ordinal
\* position twice.  rows.Err() is never consulted: a result set cut short by
\* an error is, to this code, a shorter result set.
Rows == [tableName : TableNames, OrdinalPosition : 1..MaxOrdinal,
         scanErr : BOOLEAN]

EmptyTables == [t \in {} |-> <<>>]

\* Lines 194-197 with `tables[tableName] = make(...)` executed for every
\* row: the list is replaced instead of extended.
AppendColumn_overwrite(tbls, tableName, col) ==
    [t \in DOMAIN tbls \cup {tableName} |->
        IF t = tableName THEN <<col>> ELSE tbls[t]]

\* Lines 194-197: create the list on first encounter, then append.
AppendColumn(tbls, tableName, col) ==
    LET made == IF tableName \in DOMAIN tbls
                THEN tbls
                ELSE [t \in DOMAIN tbls \cup {tableName} |->
                         IF t = tableName THEN <<>> ELSE tbls[t]]
    IN  [made EXCEPT ![tableName] = Append(@, col)]

\* The column a row scans into.  src is a ghost field: the position of the
\* row in the result set.
Column(r, idx) == [OrdinalPosition |-> r.OrdinalPosition, src |-> idx]

\* The loop body with the `continue` of line 192 missing: a row whose Scan
\* failed is appended like any other.
scanRow_noContinue(tbls, r, idx) ==
    AppendColumn(tbls, r.tableName, Column(r, idx))

\* The loop body, lines 182-197: the map after row r, the idx-th delivered.
scanRow(tbls, r, idx) ==
    IF r.scanErr
    THEN tbls
    ELSE AppendColumn(tbls, r.tableName, Column(r, idx))

----------------------------------------------------------------------------
(* One run of main (lines 203-245).  Flag parsing only fills the connection *)
(* string and is left out.                                                 *)

MainInit ==
    /\ pc = "start"
    /\ rows = "nil"
    /\ deferred = FALSE
    /\ delivered = <<>>
    /\ tables = EmptyTables
    /\ diag = 0
    /\ queries = 0
    /\ queryFailed = FALSE
    /\ model = ZeroModel
    /\ stdout = <<>>
    /\ exitCode = -1

MainIdle ==
    /\ pc = "idle"
    /\ rows = "nil"
    /\ deferred = FALSE
    /\ delivered = <<>>
    /\ tables = EmptyTables
    /\ diag = 0
    /\ queries = 0
    /\ queryFailed = FALSE
    /\ model = ZeroModel
    /\ stdout = <<>>
    /\ exitCode = -1

\* MustNewDB, sql.Open succeeded.
OpenOk ==
    /\ pc = "start"
    /\ pc' = "opened"
    /\ UNCHANGED <<normVars, renderVars, rows, deferred, delivered, tables, diag, queries,
                   queryFailed, model, stdout, exitCode>>

\* MustNewDB, sql.Open failed: log.Fatal.
OpenErr ==
    /\ pc = "start"
    /\ pc' = "fatal"
    /\ exitCode' = 1
    /\ UNCHANGED <<normVars, renderVars, rows, deferred, delivered, tables, diag, queries,
                   queryFailed, model, stdout>>

\* Lines 173-179, db.Query succeeded: the result set is open and its Close
\* is deferred.
QueryOk ==
    /\ pc = "opened"
    /\ queries' = queries + 1
    /\ tables' = EmptyTables
    /\ rows' = "open"
    /\ deferred' = TRUE
    /\ pc' = "scan"
    /\ UNCHANGED <<normVars, renderVars, delivered, diag, queryFailed, model, stdout, exitCode>>

\* Lines 173-176 with log.Print for log.Fatal: the failure is reported and
\* the function goes on to the loop.
QueryErr_logOnly ==
    /\ pc = "opened"
    /\ queries' = queries + 1
    /\ queryFailed' = TRUE
    /\ tables' = EmptyTables
    /\ pc' = "scan"
    /\ UNCHANGED <<normVars, renderVars, rows, deferred, delivered, diag, model, stdout, exitCode>>

\* Lines 173-176, db.Query failed: log.Fatal ends the process with status 1;
\* rows is nil and nothing is deferred.
QueryErr ==
    /\ pc = "opened"
    /\ queries' = queries + 1
    /\ queryFailed' = TRUE
    /\ tables' = EmptyTables
    /\ pc' = "fatal"
    /\ exitCode' = 1
    /\ UNCHANGED <<normVars, renderVars, rows, deferred, delivered, diag, model, stdout>>

\* Lines 181-198, rows.Next() returned true: one pass of the loop body.
ScanRow ==
    /\ pc = "scan"
    /\ Len(delivered) < MaxRows
    /\ \E r \in Rows :
          /\ delivered' = Append(delivered, r)
          /\ tables' = scanRow(tables, r, Len(delivered) + 1)
          /\ diag' = IF r.scanErr THEN diag + 1 ELSE diag
    /\ UNCHANGED <<normVars, renderVars, pc, rows, deferred, queries, queryFailed, model, stdout,
                   exitCode>>

\* Line 200 with the defer of line 178 missing: the function returns and
\* leaves the result set as it is.
GetAllTablesReturn_noClose ==
    /\ pc = "scan"
    /\ pc' = "returned"
    /\ UNCHANGED <<normVars, renderVars, rows, deferred, delivered, tables, diag, queries,
                   queryFailed, model, stdout, exitCode>>

\* Line 200, rows.Next() returned false: return tables; the deferred
\* rows.Close() runs.  main drops the returned map (line 225).
GetAllTablesReturn ==
    /\ pc = "scan"
    /\ pc' = "returned"
    /\ rows' = IF deferred THEN "closed" ELSE rows
    /\ UNCHANGED <<normVars, renderVars, deferred, delivered, tables, diag, queries, queryFailed,
                   model, stdout, exitCode>>

\* Lines 227-240: the model literal, and the template parsed from the
\* constant modelTpl (which parses).
BuildModel ==
    /\ pc = "returned"
    /\ model' = mainModel
    /\ pc' = "built"
    /\ UNCHANGED <<normVars, renderVars, rows, deferred, delivered, tables, diag, queries,
                   queryFailed, stdout, exitCode>>

\* Lines 242-245, Execute wrote everything: main returns.
ExecuteOk ==
    /\ pc = "built"
    /\ stdout' = stdout \o Execute(model)
    /\ pc' = "done"
    /\ exitCode' = 0
    /\ UNCHANGED <<normVars, renderVars, rows, deferred, delivered, tables, diag, queries,
                   queryFailed, model>>

\* Lines 242-244, a write to os.Stdout failed: some proper prefix of the
\* text was written, then panic (status 2).
ExecuteErr ==
    /\ pc = "built"
    /\ \E k \in 0..(Len(Execute(model)) - 1) :
          stdout' = stdout \o SubSeq(Execute(model), 1, k)
    /\ pc' = "panic"
    /\ exitCode' = 2
    /\ UNCHANGED <<normVars, renderVars, rows, deferred, delivered, tables, diag, queries,
                   queryFailed, model>>

Next ==
    \/ OpenOk
    \/ OpenErr
    \/ QueryOk
    \/ QueryErr
    \/ ScanRow
    \/ GetAllTablesReturn
    \/ BuildModel
    \/ ExecuteOk
    \/ ExecuteErr

----------------------------------------------------------------------------
(* SpecRender: modelTpl executed on every Model of a bounded shape *)

Users == <<"U","s","e","r","s">>
Posts == <<"P","o","s","t","s">>

RenderFields ==
    { [Name |-> <<"I","D">>, Type |-> Int64,
       Tag  |-> <<"s","q","l",":","\"","i","d","\"">>],
      [Name |-> <<"E","m","a","i","l">>,
       Type |-> <<"*","s","t","r","i","n","g">>,
       Tag  |-> <<"s","q","l",":","\"","e","m","a","i","l","\"">>],
      mainField }

RenderModels ==
    [Name   : {Users, Posts},
     Fields : UNION {[1..n -> RenderFields] : n \in 0..MaxFields}]

RenderInit ==
    /\ rModel \in RenderModels
    /\ rText = <<>>
    /\ rPc = "start"

RenderIdle ==
    /\ rModel = ZeroModel
    /\ rText = <<>>
    /\ rPc = "idle"

\* Lines 237-244 on rModel: all that main writes for a model.
Render ==
    /\ rPc = "start"
    /\ rText' = Execute(rModel)
    /\ rPc' = "done"
    /\ UNCHANGED <<rModel, mainVars, normVars>>

----------------------------------------------------------------------------
(* Specifications *)

Init == MainInit /\ NormIdle /\ RenderIdle

Spec == Init /\ [][Next]_vars

InitNormalize == NormInit /\ MainIdle /\ RenderIdle

SpecNormalize == InitNormalize /\ [][NormNext]_vars

InitRender == RenderInit /\ MainIdle /\ NormIdle

SpecRender == InitRender /\ [][Render]_vars

----------------------------------------------------------------------------
(* Helpers of the properties *)

Range(f) == {f[i] : i \in DOMAIN f}

IsPrefix(p, q) == Len(p) <= Len(q) /\ SubSeq(q, 1, Len(p)) = p

\* sub occurs in s as a run of consecutive characters
Contains(s, sub) ==
    \E k \in 0..(Len(s) - Len(sub)) : SubSeq(s, k + 1, k + Len(sub)) = sub

Acronyms == { <<"I","d">>, <<"U","u","i","d">>, <<"U","r","l">>,
              <<"H","t","m","l">> }

\* The result the specification describes for in from position i on: an
\* underscore is dropped; a character that is first or follows an underscore
\* is upper-cased; any other character is kept.
RECURSIVE camelAsSpecified(_, _)
camelAsSpecified(in, i) ==
    IF i > Len(in) THEN <<>>
    ELSE IF in[i] = "_" THEN camelAsSpecified(in, i + 1)
    ELSE IF i = 1 \/ in[i - 1] = "_"
         THEN <<ToUpper(in[i])>> \o camelAsSpecified(in, i + 1)
    ELSE <<in[i]>> \o camelAsSpecified(in, i + 1)

\* s is already normalized: non-empty, no underscore, an upper-case first
\* character, no acronym substring.
AlreadyNormalized(s) ==
    /\ s # <<>>
    /\ "_" \notin Range(s)
    /\ s[1] \in Range(Upper)
    /\ \A a \in Acronyms : ~Contains(s, a)

----------------------------------------------------------------------------
(* Properties of toCamelCase, checked under SpecNormalize *)

\* C1: for every identifier, toCamelCase returns the input with its first
\* character and the first character after each underscore upper-cased, every
\* underscore removed and all other characters unchanged, in order.
C1_CamelCaseAsSpecified ==
    nPc = "done" => nOut = camelAsSpecified(nIn, 1)

\* C3: toCamelCase is the identity on an already-normalized identifier (no
\* underscore, upper-case first character, no acronym substring), and so
\* applying it twice gives what applying it once gives whenever the first
\* result has that shape.
C3_IdempotentOnNormalized ==
    /\ (nPc \in {"done", "again"} /\ AlreadyNormalized(nIn)) => nOut = nIn
    /\ (nPc = "again" /\ AlreadyNormalized(nOut)) => nOut2 = nOut

\* C3's case: an identifier with an underscore whose result is normalized,
\* normalized a second time.
C3_Witness ==
    /\ nPc = "again"
    /\ "_" \in Range(nIn)
    /\ AlreadyNormalized(nOut)
    /\ Len(nOut) >= 2
    /\ \E i \in 2..Len(nOut) : nOut[i] \in Range(Lower)
    /\ nOut2 = nOut

----------------------------------------------------------------------------
(* Properties of one run of main, checked under Spec *)

FieldID  == <<"F","i","e","l","d","I","D">>
UserUuidArg == <<"u","s","e","r","_","u","u","i","d">>
UserUUID == <<"U","s","e","r","U","U","I","D">>

\* GetAllTables has been left: it returned, or log.Fatal ended the process
\* inside it.
LeftGetAllTables ==
    \/ pc \in {"returned", "built", "done", "panic"}
    \/ pc = "fatal" /\ queries >= 1

\* The positions in dlv of the rows of table T whose Scan succeeded, in
\* arrival order.
GoodRowsOf(dlv, T) ==
    SelectSeq([i \in 1..Len(dlv) |-> i],
              LAMBDA i : ~dlv[i].scanErr /\ dlv[i].tableName = T)

\* The TableColumnSet the rows dlv call for: a list for every table with a
\* well-formed row, holding the columns of its well-formed rows in arrival
\* order.
Grouped(dlv) ==
    [T \in {dlv[i].tableName : i \in {j \in 1..Len(dlv) : ~dlv[j].scanErr}} |->
        [k \in 1..Len(GoodRowsOf(dlv, T)) |->
            [OrdinalPosition |-> dlv[GoodRowsOf(dlv, T)[k]].OrdinalPosition,
             src             |-> GoodRowsOf(dlv, T)[k]]]]

\* C2: the name main derives from "field_id" is "FieldID" (the acronym
\* substitution Id->ID applied after camel-casing), and
\* normalize("user_uuid") is "UserUUID".
C2_AcronymsSubstituted ==
    pc \in {"built", "done", "panic"} =>
        /\ model.Fields[1].Name = FieldID
        /\ toCamelCase(UserUuidArg) = UserUUID

\* Every column under key T was read from a well-formed row of table T, and
\* the keys are the tables with a well-formed row so far (no empty list).
C4_KeyedByRowTable(tbls, dlv) ==
    /\ \A T \in DOMAIN tbls :
          /\ tbls[T] # <<>>
          /\ \A i \in 1..Len(tbls[T]) :
                /\ tbls[T][i].src \in 1..Len(dlv)
                /\ dlv[tbls[T][i].src].tableName = T
                /\ ~dlv[tbls[T][i].src].scanErr
    /\ DOMAIN tbls =
          {dlv[i].tableName : i \in {j \in 1..Len(dlv) : ~dlv[j].scanErr}}

\* A list, once created, is only extended; a row of table T leaves the
\* lists of the other tables as they were.
C4_OtherListsUnchanged ==
    \A T \in TableNames :
       /\ T \in DOMAIN tables =>
             T \in DOMAIN tables' /\ IsPrefix(tables[T], tables'[T])
       /\ (/\ Len(delivered') = Len(delivered) + 1
           /\ delivered'[Len(delivered')].tableName # T)
          => /\ (T \in DOMAIN tables') = (T \in DOMAIN tables)
             /\ T \in DOMAIN tables => tables'[T] = tables[T]

\* C4: at every point during and after the scan, every column stored under
\* key T was read from a row whose table_name is T; a list for T exists iff
\* a row of T has been scanned successfully (created on the first such row,
\* never removed or emptied); a row of table T leaves every other table's
\* list unchanged.
C4_TablesKeyedByRowTable ==
    [][C4_KeyedByRowTable(tables', delivered') /\ C4_OtherListsUnchanged]_vars

\* C4's case: during the scan, both tables have a list and one list has
\* been extended.
C4_Witness ==
    /\ pc = "scan"
    /\ DOMAIN tables = TableNames
    /\ \E T \in DOMAIN tables : Len(tables[T]) >= 2

\* C5: a row whose Scan fails is skipped with a diagnostic and does not
\* abort the scan: GetAllTables can always return normally, what it returns
\* holds exactly the columns of the well-formed rows (in arrival order), one
\* diagnostic was written per malformed row, and the run is not ended by it.
C5_MalformedRowsSkipped ==
    /\ pc = "scan" => ENABLED GetAllTablesReturn
    /\ pc \in {"returned", "built", "done", "panic"} =>
          /\ tables = Grouped(delivered)
          /\ diag = Len(SelectSeq(delivered, LAMBDA r : r.scanErr))
    /\ pc = "returned" => ENABLED BuildModel
    /\ delivered # <<>> => pc # "fatal" /\ exitCode # 1

\* C5's case: a malformed row, then a well-formed one, and the run
\* completed.
C5_Witness ==
    /\ pc = "done"
    /\ exitCode = 0
    /\ \E i, j \in 1..Len(delivered) :
          i < j /\ delivered[i].scanErr /\ ~delivered[j].scanErr
    /\ tables # EmptyTables

\* C6: the catalog query is issued at most once, and exactly once before
\* any text is rendered; if it fails the run ends at once with a failure
\* status: no retry, no row iterated, no text written.
C6_QueryOnceFailureFatal ==
    /\ queries <= 1
    /\ pc \in {"scan", "returned", "built", "done", "panic"} =>
          queries = 1 /\ ~queryFailed
    /\ stdout # <<>> => queries = 1 /\ ~queryFailed
    /\ queryFailed =>
          /\ pc = "fatal"
          /\ exitCode = 1
          /\ queries = 1
          /\ delivered = <<>>
          /\ tables = EmptyTables
          /\ stdout = <<>>
          /\ ~ENABLED Next

\* C6's case: the query failed.
C6_Witness == queryFailed /\ queries = 1 /\ pc = "fatal"

\* C7: whenever GetAllTables has been left (normal return, with or without
\* skipped rows, or the fatal exit on query failure) no result set it opened
\* is still open, and a result set is closed only after it was opened.
C7_ResultSetReleased ==
    [][/\ LeftGetAllTables' => rows' # "open"
       /\ (rows' = "closed" /\ rows # "closed") => rows = "open"]_vars

\* C7's case: returned after skipping a malformed row, the result set
\* closed.
C7_Witness ==
    /\ pc = "returned"
    /\ diag >= 1
    /\ rows = "closed"

\* Ordinal positions are unique within each table among the well-formed
\* rows delivered.
OrdinalsUnique ==
    \A i, j \in 1..Len(delivered) :
       (/\ i # j
        /\ ~delivered[i].scanErr /\ ~delivered[j].scanErr
        /\ delivered[i].tableName = delivered[j].tableName)
       => delivered[i].OrdinalPosition # delivered[j].OrdinalPosition

\* C8: for every table, the column sequence the run holds when it renders
\* is strictly increasing by ordinal position whatever order the rows
\* arrived in, with no column dropped.
C8_ColumnsOrderedByOrdinal ==
    (LeftGetAllTables /\ pc # "fatal" /\ OrdinalsUnique) =>
        \A T \in DOMAIN tables :
           /\ Len(tables[T]) = Len(GoodRowsOf(delivered, T))
           /\ \A i \in 1..(Len(tables[T]) - 1) :
                 tables[T][i].OrdinalPosition < tables[T][i + 1].OrdinalPosition


TestTestingModel ==
    <<"T","e","s","t","T","e","s","t","i","n","g","M","o","d","e","l">>

\* The one declaration every completed run writes: TestTestingModel with the
\* field toCamelCase derives from "field_id", int64, sql:"field_id".
HardCodedText ==
    <<NL, KwType, TestTestingModel, KwStruct, LBrace, NL,
      <<"F","i","e","l","d","I","d">>, Int64, SqlTag, NL,
      RBrace, NL>>

\* Number of declarations in a text: its `type` keywords.
Declarations(text) ==
    Cardinality({i \in 1..Len(text) : text[i] = KwType})

\* C10: the text a run writes does not depend on the catalog.  Whatever
\* rows (well-formed or malformed, of whichever tables, or none) were
\* delivered, the model main renders is the hard-coded one and a completed
\* run has written exactly that one declaration; a run cut short by a write
\* error has written a proper prefix of it, and no other run writes at all.
C10_OutputIndependentOfCatalog ==
    /\ pc \in {"built", "done", "panic"} =>
          /\ model.Name = TestTestingModel
          /\ Len(model.Fields) = 1
    /\ pc = "done" => stdout = HardCodedText /\ Declarations(stdout) = 1
    /\ pc = "panic" => IsPrefix(stdout, HardCodedText) /\ stdout # HardCodedText
    /\ pc \notin {"done", "panic"} => stdout = <<>>

\* C10's case: a completed run whose catalog had both tables and a
\* malformed row.
C10_Witness ==
    /\ pc = "done"
    /\ DOMAIN tables = TableNames
    /\ diag >= 1
    /\ stdout = HardCodedText

----------------------------------------------------------------------------
(* Properties of the rendering, checked under SpecRender *)

\* The lines of a text: the runs of tokens between line breaks.
RECURSIVE splitLines(_, _)
splitLines(text, cur) ==
    IF text = <<>> THEN <<cur>>
    ELSE IF Head(text) = NL
         THEN <<cur>> \o splitLines(Tail(text), <<>>)
    ELSE splitLines(Tail(text), Append(cur, Head(text)))

Lines(text) == splitLines(text, <<>>)

CountOf(text, tok) == Cardinality({i \in 1..Len(text) : text[i] = tok})

\* The block the specification describes for model m: the opening line, a
\* table-binding marker line, one line per field, the closing line.
BlockAsSpecified(ls, m) ==
    /\ Len(ls) >= Len(m.Fields) + 3
    /\ ls[1] = <<KwType, m.Name, KwStruct, LBrace>>
    /\ ls[2] # <<>>
    /\ \A i \in 1..Len(m.Fields) :
          ls[2 + i] = <<m.Fields[i].Name, m.Fields[i].Type, m.Fields[i].Tag>>
    /\ ls[Len(m.Fields) + 3] = <<RBrace>>

\* C9: the rendered text is headerTpl followed by one declaration block for
\* the model: a table-binding marker, then exactly one tagged field line per
\* field, in field order, braces balanced; for zero, one and several fields.
C9_RenderedAsSpecified ==
    rPc = "done" =>
        /\ IsPrefix(headerTpl, rText)
        /\ CountOf(rText, LBrace) = CountOf(rText, RBrace)
        /\ BlockAsSpecified(
              Lines(SubSeq(rText, Len(headerTpl) + 2, Len(rText))), rModel)

============================================================================
